---- MODULE Spec2Model ----
(***************************************************************************)
(* Model settings store, Settings API and sync reconciler of the dbagent   *)
(* application (lib/db/model-settings.ts, app/api/models/route.ts).        *)
(*                                                                         *)
(* One project is modelled: every statement of model-settings.ts filters   *)
(* on projectId, so the rows of other projects are never read or written.  *)
(* The model_settings table is the committed state `table`.  Every handler *)
(* is a sequence of awaited SQL statements; statements of different        *)
(* requests interleave.  A statement outside db.transaction commits on its *)
(* own; the statements of setDefaultModel run in one READ COMMITTED        *)
(* transaction: its writes stay private (and lock the rows) until commit.  *)
(* A statement that has to write a row locked by another transaction waits *)
(* for that transaction and then re-evaluates its WHERE clause on the      *)
(* latest committed version of the row.  A statement takes all the row     *)
(* locks it needs in one step.  The catalog reports a non-empty name for   *)
(* every model.  updatedAt is not modelled.                                *)
(*                                                                         *)
(* The read side is the hybrid resolver (components/chat/actions.ts) and   *)
(* the GET and POST handlers of route.ts.  The provider registry is not    *)
(* part of these sources: its cache is populated on a miss from what the   *)
(* providers offer (`avail`) and emptied by a refresh, the catalog is a    *)
(* set of model ids listed in a fixed order, and the resolver's fallback   *)
(* reads the full catalog and the store's default marker.  `out` is the    *)
(* last list answer, `status` the last HTTP status.                        *)
(***************************************************************************)
EXTENDS Integers, Sequences, FiniteSets, TLC

\* Bound: number of requests (API calls, resolve calls, reconciliation runs)
\* started and of catalog changes.
MaxCalls == 3

ModelIds == {"a", "b", "c"}
\* Request tasks that can be in flight at the same time.
Tasks == {1, 2}

\* The order in which the catalog lists the models.
CatalogOrder == <<"a", "b", "c">>

\* Display name the provider catalog reports for a model id.
CatalogName(id) == IF id = "a" THEN "A" ELSE IF id = "b" THEN "B" ELSE "C"

\* modelName values a PATCH body may carry ("" stands for undefined / NULL).
RequestNames == {"", "X"}

NoRow == [absent |-> TRUE]
Missing == "<missing>"

VARIABLES
    table,        \* committed rows of the project: ModelIds -> row or NoRow
    pc,           \* position of every request task in its handler
    req,          \* arguments of the request a task is serving
    existing,     \* result of the `existing` select of the upsert functions
    existingMap,  \* syncModelsToDB: modelId -> modelName read at the start
    idx,          \* syncModelsToDB: position in the models loop
    cleared,      \* setDefaultModel: rows cleared (and locked) by the open transaction
    cand,         \* setDefaultModel: rows the blocked clear statement selected
    status,       \* HTTP status of the last response sent (0: none yet)
    calls,        \* number of requests started
    chain,        \* history: reconciliation runs in a row with no other write
    dup,          \* model ids for which the table holds more than one row
    avail,        \* model ids the configured providers offer at the moment
    cache,        \* provider registry cache (process-wide)
    out,          \* body of the last list a read request returned
    snap,         \* read requests: the catalog the task has read
    settings,     \* GET: the settings rows the task has read
    orig          \* history: the rows the project had at the start

vars == <<table, pc, req, existing, existingMap, idx, cleared, cand, status, calls, chain,
          dup, avail, cache, out, snap, settings, orig>>

----------------------------------------------------------------------------
\* Rows and queries

NewRow(name, en, def) == [modelName |-> name, enabled |-> en, isDefault |-> def]

HasRow(tbl, m) == tbl[m] # NoRow

\* rows WHERE isDefault = true
DefaultRows(tbl) == {k \in ModelIds : HasRow(tbl, k) /\ tbl[k].isDefault}

\* getDefaultModel: rows WHERE isDefault = true AND enabled = true
DefaultModelMatches(tbl) ==
    {k \in ModelIds : HasRow(tbl, k) /\ tbl[k].isDefault /\ tbl[k].enabled}

\* getDefaultModel returns result[0] ?? null; without ORDER BY any matching
\* row may come first.
NoModel == "<null>"
getDefaultModel(tbl) ==
    IF DefaultModelMatches(tbl) = {} THEN {NoModel} ELSE DefaultModelMatches(tbl)

\* Rows another open transaction has written and not yet committed.
LockedByOther(t) == UNION {cleared[u] : u \in Tasks \ {t}}

NoReq == [op |-> "none", modelId |-> "a", modelName |-> "", enabled |-> FALSE, models |-> <<>>]

NoMap == [k \in ModelIds |-> Missing]

NoSettings == [k \in ModelIds |-> NoRow]

\* The provider registry cache before its first use and after a reset.
NoCache == [filled |-> FALSE, models |-> {}]

NoOut == [kind |-> "none", models |-> <<>>, missing |-> <<>>]

\* No run of reconciliations in a row is being tracked.
NoChain == [cat |-> <<>>, done |-> 0, ok |-> FALSE]

\* The snapshot handed to syncModelsToDB: {id, name} pairs of the catalog
\* models in S, in catalog order.
RECURSIVE SnapshotFrom(_, _)
SnapshotFrom(S, i) ==
    IF i > Len(CatalogOrder) THEN <<>>
    ELSE (IF CatalogOrder[i] \in S
             THEN <<[id |-> CatalogOrder[i], name |-> CatalogName(CatalogOrder[i])]>>
             ELSE <<>>) \o SnapshotFrom(S, i + 1)

Snapshot(S) == SnapshotFrom(S, 1)

----------------------------------------------------------------------------
\* Statements

\* A clear statement that also disables the rows it clears.
ClearRowsAlsoDisables(tbl, ids) ==
    [k \in ModelIds |->
        IF k \in ids /\ HasRow(tbl, k)
        THEN [tbl[k] EXCEPT !.isDefault = FALSE, !.enabled = FALSE] ELSE tbl[k]]

\* UPDATE ... SET isDefault = false on the rows in ids
ClearRows(tbl, ids) ==
    [k \in ModelIds |->
        IF k \in ids /\ HasRow(tbl, k) THEN [tbl[k] EXCEPT !.isDefault = FALSE] ELSE tbl[k]]

\* A clear statement that commits on its own, outside the transaction.
VisibleBeforeCommitLeaks(tbl, ids) == ClearRows(tbl, ids)

\* db.transaction: what the other sessions see of the table while the
\* transaction that cleared ids is still open.
VisibleBeforeCommit(tbl, ids) == tbl

\* An INSERT that the unique key does not stop.
UniqueViolationNever(tbl, m) == FALSE

\* UNIQUE (project_id, model_id): an INSERT for a key that has a row fails.
UniqueViolation(tbl, m) == HasRow(tbl, m)

\* An INSERT for a key that already has a row adds a second row for it.
InsertDuplicates(tbl, m) == IF HasRow(tbl, m) THEN {m} ELSE {}

\* setDefaultModel, update branch: the SET list applied to the row.
SetDefaultUpdate(row, ex, name) ==
    [row EXCEPT !.isDefault = TRUE,
                !.enabled = TRUE,
                !.modelName = IF name # "" /\ ex.modelName = "" THEN name ELSE @]

\* An UPDATE that loses the row.
EnabledUpdateDropsRow(row, ex, en, name) == NoRow

\* updateModelEnabled, update branch: the SET list applied to the row.
EnabledUpdate(row, ex, en, name) ==
    [row EXCEPT !.enabled = en,
                !.modelName = IF name # "" /\ ex.modelName = "" THEN name ELSE @]

\* A reconciler that rewrites the name of every row it finds.
NeedsBackfillAlways(existingName) == TRUE

\* syncModelsToDB: `if (!existingName)`.
NeedsBackfill(existingName) == existingName = ""

\* A reconciler that writes the whole row as its insert branch does.
SyncBackfillResetsFlags(row, name) == NewRow(name, FALSE, FALSE)

\* syncModelsToDB, update branch: the SET list applied to the row.
SyncBackfill(row, name) == [row EXCEPT !.modelName = name]

\* A reconciler that creates the rows enabled.
SyncInsertRowEnabled(name) == NewRow(name, TRUE, FALSE)

\* syncModelsToDB, insert branch.
SyncInsertRow(name) == NewRow(name, FALSE, FALSE)

Request(op, m, name, en, models) ==
    [op |-> op, modelId |-> m, modelName |-> name, enabled |-> en, models |-> models]

\* A handler returns: its locals are dropped.
Finish(t) ==
    /\ pc' = [pc EXCEPT ![t] = "idle"]
    /\ req' = [req EXCEPT ![t] = NoReq]
    /\ existing' = [existing EXCEPT ![t] = NoRow]
    /\ existingMap' = [existingMap EXCEPT ![t] = NoMap]
    /\ idx' = [idx EXCEPT ![t] = 0]
    /\ cleared' = [cleared EXCEPT ![t] = {}]
    /\ cand' = [cand EXCEPT ![t] = {}]
    /\ snap' = [snap EXCEPT ![t] = {}]
    /\ settings' = [settings EXCEPT ![t] = NoSettings]

----------------------------------------------------------------------------
Init ==
    /\ table = [k \in ModelIds |-> NoRow]
    /\ pc = [t \in Tasks |-> "idle"]
    /\ req = [t \in Tasks |-> NoReq]
    /\ existing = [t \in Tasks |-> NoRow]
    /\ existingMap = [t \in Tasks |-> NoMap]
    /\ idx = [t \in Tasks |-> 0]
    /\ cleared = [t \in Tasks |-> {}]
    /\ cand = [t \in Tasks |-> {}]
    /\ status = 0
    /\ calls = 0
    /\ chain = NoChain
    /\ dup = {}
    /\ avail = ModelIds
    /\ cache = NoCache
    /\ out = NoOut
    /\ snap = [t \in Tasks |-> {}]
    /\ settings = [t \in Tasks |-> NoSettings]
    /\ orig = table

----------------------------------------------------------------------------
\* PATCH {modelId, modelName, isDefault: true}: setDefaultModel opens the
\* transaction and issues the clear statement.  The statement selects the
\* committed default rows; if another transaction holds one of them it waits.
PatchSetDefault(t, m, name) ==
    /\ pc[t] = "idle"
    /\ calls < MaxCalls
    /\ calls' = calls + 1
    /\ req' = [req EXCEPT ![t] = Request("setDefault", m, name, TRUE, <<>>)]
    /\ LET c == DefaultRows(table) IN
        IF c \cap LockedByOther(t) = {}
        THEN /\ cleared' = [cleared EXCEPT ![t] = c]
             /\ pc' = [pc EXCEPT ![t] = "sd_select"]
             /\ table' = VisibleBeforeCommit(table, c)
             /\ cand' = cand
        ELSE /\ cand' = [cand EXCEPT ![t] = c]
             /\ pc' = [pc EXCEPT ![t] = "sd_clear_wait"]
             /\ UNCHANGED <<cleared, table>>
    /\ UNCHANGED <<existing, existingMap, idx, status, chain>>
    /\ UNCHANGED <<dup, avail, cache, out, snap, settings>>
    /\ UNCHANGED orig

\* The blocked clear statement resumes once the rows are released and
\* re-evaluates its WHERE clause on their latest committed version.
SdClearResume(t) ==
    /\ pc[t] = "sd_clear_wait"
    /\ cand[t] \cap LockedByOther(t) = {}
    /\ LET c == cand[t] \cap DefaultRows(table) IN
        /\ cleared' = [cleared EXCEPT ![t] = c]
        /\ table' = VisibleBeforeCommit(table, c)
    /\ cand' = [cand EXCEPT ![t] = {}]
    /\ pc' = [pc EXCEPT ![t] = "sd_select"]
    /\ UNCHANGED <<req, existing, existingMap, idx, status, calls, chain>>
    /\ UNCHANGED <<dup, avail, cache, out, snap, settings>>
    /\ UNCHANGED orig

\* `existing` select inside the transaction: it sees its own clear.
SdSelect(t) ==
    /\ pc[t] = "sd_select"
    /\ existing' = [existing EXCEPT ![t] = ClearRows(table, cleared[t])[req[t].modelId]]
    /\ pc' = [pc EXCEPT ![t] = "sd_upsert"]
    /\ UNCHANGED <<table, req, existingMap, idx, cleared, cand, status, calls, chain>>
    /\ UNCHANGED <<dup, avail, cache, out, snap, settings>>
    /\ UNCHANGED orig

\* Update or insert of the target row, then commit (or rollback when the
\* insert violates the unique key).  The update waits for a row that
\* another transaction holds.
SdUpsertCommit(t) ==
    /\ pc[t] = "sd_upsert"
    /\ LET m == req[t].modelId
           base == ClearRows(table, cleared[t])
       IN IF existing[t] # NoRow
          THEN /\ m \notin LockedByOther(t)
               /\ table' = IF HasRow(base, m)
                              THEN [base EXCEPT ![m] = SetDefaultUpdate(base[m], existing[t], req[t].modelName)]
                              ELSE base
               /\ status' = 200
          ELSE IF UniqueViolation(table, m)
               THEN /\ table' = table
                    /\ status' = 500
               ELSE /\ table' = [base EXCEPT ![m] = NewRow(req[t].modelName, TRUE, TRUE)]
                    /\ status' = 200
    /\ Finish(t)
    /\ chain' = NoChain
    /\ dup' = IF existing[t] = NoRow /\ ~UniqueViolation(table, req[t].modelId)
               THEN dup \cup InsertDuplicates(table, req[t].modelId)
               ELSE dup
    /\ UNCHANGED <<avail, cache, out>>
    /\ UNCHANGED calls
    /\ UNCHANGED orig

\* PATCH {modelId, modelName, enabled}: when enabled is false the handler
\* first reads the default and answers 400 if it is the target.
PatchEnabled(t, m, en, name) ==
    /\ pc[t] = "idle"
    /\ calls < MaxCalls
    /\ calls' = calls + 1
    /\ \E d \in getDefaultModel(table) :
         IF ~en /\ d = m
         THEN /\ status' = 400
              /\ UNCHANGED <<pc, req>>
         ELSE /\ pc' = [pc EXCEPT ![t] = "pe_select"]
              /\ req' = [req EXCEPT ![t] = Request("setEnabled", m, name, en, <<>>)]
              /\ status' = status
    /\ UNCHANGED <<table, existing, existingMap, idx, cleared, cand, chain>>
    /\ UNCHANGED <<dup, avail, cache, out, snap, settings>>
    /\ UNCHANGED orig

\* updateModelEnabled: `existing` select.
PeSelect(t) ==
    /\ pc[t] = "pe_select"
    /\ existing' = [existing EXCEPT ![t] = table[req[t].modelId]]
    /\ pc' = [pc EXCEPT ![t] = "pe_write"]
    /\ UNCHANGED <<table, req, existingMap, idx, cleared, cand, status, calls, chain>>
    /\ UNCHANGED <<dup, avail, cache, out, snap, settings>>
    /\ UNCHANGED orig

\* updateModelEnabled: update or insert, then the 200 response.  An update
\* that matches no row changes nothing and the handler still answers 200.
PeWrite(t) ==
    /\ pc[t] = "pe_write"
    /\ LET m == req[t].modelId IN
       IF existing[t] # NoRow
       THEN /\ m \notin LockedByOther(t)
            /\ table' = IF HasRow(table, m)
                           THEN [table EXCEPT ![m] = EnabledUpdate(table[m], existing[t], req[t].enabled, req[t].modelName)]
                           ELSE table
            /\ status' = 200
       ELSE IF UniqueViolation(table, m)
            THEN /\ table' = table
                 /\ status' = 500
            ELSE /\ table' = [table EXCEPT ![m] = NewRow(req[t].modelName, req[t].enabled, FALSE)]
                 /\ status' = 200
    /\ Finish(t)
    /\ chain' = NoChain
    /\ dup' = IF existing[t] = NoRow /\ ~UniqueViolation(table, req[t].modelId)
               THEN dup \cup InsertDuplicates(table, req[t].modelId)
               ELSE dup
    /\ UNCHANGED <<avail, cache, out>>
    /\ UNCHANGED calls
    /\ UNCHANGED orig

\* DELETE ?modelId=m: reads the default and answers 400 if it is the target.
Delete(t, m) ==
    /\ pc[t] = "idle"
    /\ calls < MaxCalls
    /\ calls' = calls + 1
    /\ \E d \in getDefaultModel(table) :
         IF d = m
         THEN /\ status' = 400
              /\ UNCHANGED <<pc, req>>
         ELSE /\ pc' = [pc EXCEPT ![t] = "del_write"]
              /\ req' = [req EXCEPT ![t] = Request("delete", m, "", FALSE, <<>>)]
              /\ status' = status
    /\ UNCHANGED <<table, existing, existingMap, idx, cleared, cand, chain>>
    /\ UNCHANGED <<dup, avail, cache, out, snap, settings>>
    /\ UNCHANGED orig

\* deleteModelSetting, then the 200 response.
DeleteWrite(t) ==
    /\ pc[t] = "del_write"
    /\ req[t].modelId \notin LockedByOther(t)
    /\ table' = [table EXCEPT ![req[t].modelId] = NoRow]
    /\ dup' = dup \ {req[t].modelId}
    /\ status' = 200
    /\ Finish(t)
    /\ chain' = NoChain
    /\ UNCHANGED <<avail, cache, out>>
    /\ UNCHANGED calls
    /\ UNCHANGED orig

----------------------------------------------------------------------------
\* Reconciliation

\* A rejected reconciliation reaching the caller as a failed request.
SyncErrorStatusSurfaced(st) == 500

\* The .catch on the detached syncModelsToDB call logs the error; the
\* last response is what it was.
SyncErrorStatus(st) == st

SyncRunning(t) == pc[t] = "sy_loop"

\* The iteration at idx[t] issues an UPDATE or an INSERT.
SyncIssuesWrite(t) ==
    LET e == req[t].models[idx[t]] IN
    \/ existingMap[t][e.id] = Missing
    \/ NeedsBackfill(existingMap[t][e.id])

\* syncModelsToDB is started (detached) with the snapshot of the catalog
\* models S and reads the project's rows into existingMap.
SyncStart(t, S) ==
    /\ pc[t] = "idle"
    /\ calls < MaxCalls
    /\ calls' = calls + 1
    /\ LET models == Snapshot(S)
           fresh == ~(chain.ok /\ chain.done = 1 /\ chain.cat = models)
       IN /\ IF models = <<>>
             THEN UNCHANGED <<pc, req, existingMap, idx>>
             ELSE /\ pc' = [pc EXCEPT ![t] = "sy_loop"]
                  /\ req' = [req EXCEPT ![t] = Request("sync", "a", "", FALSE, models)]
                  /\ existingMap' = [existingMap EXCEPT ![t] =
                        [k \in ModelIds |-> IF HasRow(table, k) THEN table[k].modelName ELSE Missing]]
                  /\ idx' = [idx EXCEPT ![t] = 1]
          /\ chain' = IF \E u \in Tasks \ {t} : SyncRunning(u) THEN NoChain
                       ELSE IF fresh THEN [cat |-> models, done |-> IF models = <<>> THEN 1 ELSE 0, ok |-> TRUE]
                       ELSE chain
    /\ UNCHANGED <<table, existing, cleared, cand, status>>
    /\ UNCHANGED <<dup, avail, cache, out, snap, settings>>
    /\ UNCHANGED orig

\* A loop body that inserts the missing row enabled.
SyncEntryInsertsEnabled(tbl, map, e) ==
    IF map[e.id] # Missing
    THEN IF NeedsBackfill(map[e.id]) /\ HasRow(tbl, e.id)
         THEN [tbl EXCEPT ![e.id] = SyncBackfill(tbl[e.id], e.name)]
         ELSE tbl
    ELSE [tbl EXCEPT ![e.id] = NewRow(e.name, TRUE, FALSE)]

\* syncModelsToDB, the loop body for entry e when every statement succeeds:
\* map is the modelId -> modelName map read at the start.
SyncEntry(tbl, map, e) ==
    IF map[e.id] # Missing
    THEN IF NeedsBackfill(map[e.id]) /\ HasRow(tbl, e.id)
         THEN [tbl EXCEPT ![e.id] = SyncBackfill(tbl[e.id], e.name)]
         ELSE tbl
    ELSE [tbl EXCEPT ![e.id] = SyncInsertRow(e.name)]

\* syncModelsToDB run alone from tbl, from its select to the end of the loop.
RECURSIVE SyncRunFrom(_, _, _, _)
SyncRunFrom(tbl, map, models, i) ==
    IF i > Len(models) THEN tbl
    ELSE SyncRunFrom(SyncEntry(tbl, map, models[i]), map, models, i + 1)

SingleRun(tbl, models) ==
    SyncRunFrom(tbl,
                [k \in ModelIds |-> IF HasRow(tbl, k) THEN tbl[k].modelName ELSE Missing],
                models, 1)

\* One iteration of the models loop.  A failing insert (unique key) throws:
\* the run stops and the error is logged by the caller's catch.
SyncStep(t) ==
    /\ pc[t] = "sy_loop"
    /\ LET e == req[t].models[idx[t]]
           last == idx[t] = Len(req[t].models)
           thrown == existingMap[t][e.id] = Missing /\ UniqueViolation(table, e.id)
       IN /\ IF existingMap[t][e.id] # Missing
             THEN IF NeedsBackfill(existingMap[t][e.id])
                  THEN /\ e.id \notin LockedByOther(t)
                       /\ table' = IF HasRow(table, e.id)
                                      THEN [table EXCEPT ![e.id] = SyncBackfill(table[e.id], e.name)]
                                      ELSE table
                  ELSE table' = table
             ELSE IF UniqueViolation(table, e.id)
                  THEN table' = table
                  ELSE table' = [table EXCEPT ![e.id] = SyncInsertRow(e.name)]
          /\ IF last \/ thrown
             THEN Finish(t)
             ELSE /\ idx' = [idx EXCEPT ![t] = idx[t] + 1]
                  /\ UNCHANGED <<pc, req, existing, existingMap, cleared, cand, snap, settings>>
          /\ dup' = IF existingMap[t][e.id] = Missing /\ ~UniqueViolation(table, e.id)
                     THEN dup \cup InsertDuplicates(table, e.id)
                     ELSE dup
          /\ chain' = IF thrown THEN NoChain
                       ELSE IF last /\ chain.ok THEN [chain EXCEPT !.done = 1]
                       ELSE chain
          /\ status' = IF thrown THEN SyncErrorStatus(status) ELSE status
    /\ UNCHANGED <<calls, avail, cache, out>>
    /\ UNCHANGED orig

----------------------------------------------------------------------------
\* The statement a task is about to issue fails (connection lost, deadlock
\* victim, ...).  An open transaction is rolled back; a route handler
\* answers 500; a failed reconciliation is only logged.
Fail(t) ==
    /\ pc[t] # "idle"
    /\ status' = IF req[t].op = "sync" THEN SyncErrorStatus(status) ELSE 500
    /\ chain' = IF req[t].op = "sync" THEN NoChain ELSE chain
    /\ Finish(t)
    /\ UNCHANGED <<table, calls, dup, avail, cache, out>>
    /\ UNCHANGED orig

----------------------------------------------------------------------------
\* Provider registry cache and sorting

\* listLanguageModels: the catalog as the cache serves it (populated from
\* the providers on a miss).
CatalogRead == IF cache.filled THEN cache.models ELSE avail

CacheAfterRead == IF cache.filled THEN cache ELSE [filled |-> TRUE, models |-> avail]


\* Position of a display name in the collation order localeCompare uses
\* (ids stand in for names in missingModels).
NameRank(n) ==
    IF n \in {"A", "a"} THEN 1
    ELSE IF n \in {"B", "b"} THEN 2
    ELSE IF n \in {"C", "c"} THEN 3
    ELSE IF n = "X" THEN 4
    ELSE 0

localeCompare(x, y) ==
    IF NameRank(x) < NameRank(y) THEN -1
    ELSE IF NameRank(x) > NameRank(y) THEN 1
    ELSE 0

\* A comparator that forgets the default flag.
CompareByNameOnly(kind, a, b) == localeCompare(a.name, b.name)

\* The sort callbacks: kind "list" is the full list view (default, enabled,
\* name), kind "resolve" the resolver's (default, name).
Compare(kind, a, b) ==
    IF a.isDefault # b.isDefault THEN (IF a.isDefault THEN -1 ELSE 1)
    ELSE IF kind = "list" /\ a.enabled # b.enabled THEN (IF a.enabled THEN -1 ELSE 1)
    ELSE localeCompare(a.name, b.name)

\* Array.prototype.sort (stable): the element at i moves behind every
\* element that compares lower and every equal element that stood before it.
SortBy(kind, s) ==
    LET pos(i) == 1 + Cardinality({j \in 1..Len(s) :
                        \/ Compare(kind, s[j], s[i]) < 0
                        \/ Compare(kind, s[j], s[i]) = 0 /\ j < i})
    IN [p \in 1..Len(s) |-> s[CHOOSE i \in 1..Len(s) : pos(i) = p]]

\* The ids of S in the order the catalog (or the select) lists them.
IdsInOrder(S) == SelectSeq(CatalogOrder, LAMBDA id : id \in S)

\* The enabled rows of the project.
EnabledIds(tbl) == {k \in ModelIds : HasRow(tbl, k) /\ tbl[k].enabled}

\* The other confidence policy: any enabled row suffices, a missing name
\* is shown as the id.
getEnabledModelsFromDBIdFallback(tbl) ==
    LET ids == IdsInOrder(EnabledIds(tbl)) IN
    IF EnabledIds(tbl) = {} THEN [isNull |-> TRUE, list |-> <<>>]
    ELSE [isNull |-> FALSE,
          list |-> SortBy("resolve",
                     [i \in 1..Len(ids) |->
                        [id |-> ids[i],
                         name |-> IF tbl[ids[i]].modelName = "" THEN ids[i] ELSE tbl[ids[i]].modelName,
                         isDefault |-> tbl[ids[i]].isDefault]])]

\* getEnabledModelsFromDB: null when no row is enabled or an enabled row
\* has no name, else the enabled rows sorted.
getEnabledModelsFromDB(tbl) ==
    LET ids == IdsInOrder(EnabledIds(tbl)) IN
    IF EnabledIds(tbl) = {} THEN [isNull |-> TRUE, list |-> <<>>]
    ELSE IF \E k \in EnabledIds(tbl) : tbl[k].modelName = "" THEN [isNull |-> TRUE, list |-> <<>>]
    ELSE [isNull |-> FALSE,
          list |-> SortBy("resolve",
                     [i \in 1..Len(ids) |->
                        [id |-> ids[i],
                         name |-> tbl[ids[i]].modelName,
                         isDefault |-> tbl[ids[i]].isDefault]])]

\* actionGetLanguageModelsForProjectHybrid: the catalog-derived list.
CatalogList(cat, d) ==
    LET ids == IdsInOrder(cat) IN
    SortBy("resolve",
           [i \in 1..Len(ids) |->
              [id |-> ids[i], name |-> CatalogName(ids[i]), isDefault |-> (ids[i] = d)]])

\* A list view that shows a model without a row as disabled.
ModelsWithSettingsDefaultOff(cat, st, d) ==
    LET ids == IdsInOrder(cat) IN
    SortBy("list",
           [i \in 1..Len(ids) |->
              [id |-> ids[i], name |-> CatalogName(ids[i]),
               enabled |-> IF HasRow(st, ids[i]) THEN st[ids[i]].enabled ELSE FALSE,
               isDefault |-> (ids[i] = d)]])

\* GET: catalog models annotated from the settings rows.
ModelsWithSettings(cat, st, d) ==
    LET ids == IdsInOrder(cat) IN
    SortBy("list",
           [i \in 1..Len(ids) |->
              [id |-> ids[i], name |-> CatalogName(ids[i]),
               enabled |-> IF HasRow(st, ids[i]) THEN st[ids[i]].enabled ELSE TRUE,
               isDefault |-> (ids[i] = d)]])

\* GET: settings rows whose model is not in the catalog.
MissingModels(cat, st, d) ==
    LET ids == IdsInOrder({k \in ModelIds : HasRow(st, k) /\ k \notin cat}) IN
    SortBy("list",
           [i \in 1..Len(ids) |->
              [id |-> ids[i], name |-> ids[i], enabled |-> st[ids[i]].enabled,
               isDefault |-> (ids[i] = d)]])

----------------------------------------------------------------------------
\* Hybrid resolver

\* actionGetLanguageModelsForProjectHybrid: getEnabledModelsFromDB; a
\* non-null answer is returned at once.
Resolve(t) ==
    /\ pc[t] = "idle"
    /\ calls < MaxCalls
    /\ calls' = calls + 1
    /\ LET r == getEnabledModelsFromDB(table) IN
       IF ~r.isNull
       THEN /\ out' = [kind |-> "store", models |-> r.list, missing |-> <<>>]
            /\ status' = 200
            /\ UNCHANGED <<pc, req>>
       ELSE /\ pc' = [pc EXCEPT ![t] = "rs_catalog"]
            /\ req' = [req EXCEPT ![t] = Request("resolve", "a", "", FALSE, <<>>)]
            /\ UNCHANGED <<out, status>>
    /\ UNCHANGED <<table, existing, existingMap, idx, cleared, cand, chain, dup, avail, cache, snap, settings>>
    /\ UNCHANGED orig

\* listLanguageModelsForProject: the catalog, through the cache.
RsCatalog(t) ==
    /\ pc[t] = "rs_catalog"
    /\ snap' = [snap EXCEPT ![t] = CatalogRead]
    /\ cache' = CacheAfterRead
    /\ pc' = [pc EXCEPT ![t] = "rs_default"]
    /\ UNCHANGED <<table, req, existing, existingMap, idx, cleared, cand, status, calls, chain, dup, avail, out, settings>>
    /\ UNCHANGED orig

\* getDefaultModelIdForProject, the sort, the detached syncModelsToDB call
\* and the return of the list.
RsDefault(t) ==
    /\ pc[t] = "rs_default"
    /\ \E d \in getDefaultModel(table) :
         LET list == CatalogList(snap[t], d) IN
         /\ out' = [kind |-> "catalog", models |-> list, missing |-> <<>>]
         /\ req' = [req EXCEPT ![t] =
                Request("sync", "a", "", FALSE,
                        [i \in 1..Len(list) |-> [id |-> list[i].id, name |-> list[i].name]])]
    /\ status' = 200
    /\ snap' = [snap EXCEPT ![t] = {}]
    /\ pc' = [pc EXCEPT ![t] = "sy_read"]
    /\ UNCHANGED <<table, existing, existingMap, idx, cleared, cand, calls, chain, dup, avail, cache, settings>>
    /\ UNCHANGED orig

\* syncModelsToDB started by the resolver: the select of the existing rows.
SyncRead(t) ==
    /\ pc[t] = "sy_read"
    /\ LET models == req[t].models
           fresh == ~(chain.ok /\ chain.done = 1 /\ chain.cat = models)
       IN /\ IF models = <<>>
             THEN Finish(t)
             ELSE /\ pc' = [pc EXCEPT ![t] = "sy_loop"]
                  /\ existingMap' = [existingMap EXCEPT ![t] =
                        [k \in ModelIds |-> IF HasRow(table, k) THEN table[k].modelName ELSE Missing]]
                  /\ idx' = [idx EXCEPT ![t] = 1]
                  /\ UNCHANGED <<req, existing, cleared, cand, snap, settings>>
          /\ chain' = IF \E u \in Tasks \ {t} : SyncRunning(u) THEN NoChain
                       ELSE IF fresh THEN [cat |-> models, done |-> IF models = <<>> THEN 1 ELSE 0, ok |-> TRUE]
                       ELSE chain
    /\ UNCHANGED <<table, status, calls, dup, avail, cache, out>>
    /\ UNCHANGED orig

----------------------------------------------------------------------------
\* Settings API, read side

\* GET: listLanguageModels and getModelSettings.
GetStart(t) ==
    /\ pc[t] = "idle"
    /\ calls < MaxCalls
    /\ calls' = calls + 1
    /\ snap' = [snap EXCEPT ![t] = CatalogRead]
    /\ cache' = CacheAfterRead
    /\ settings' = [settings EXCEPT ![t] = table]
    /\ req' = [req EXCEPT ![t] = Request("list", "a", "", FALSE, <<>>)]
    /\ pc' = [pc EXCEPT ![t] = "get_default"]
    /\ UNCHANGED <<table, existing, existingMap, idx, cleared, cand, status, chain, dup, avail, out>>
    /\ UNCHANGED orig

\* GET: getDefaultModel, the two sorted lists and the response.
GetFinish(t) ==
    /\ pc[t] = "get_default"
    /\ \E d \in getDefaultModel(table) :
         out' = [kind |-> "list",
                 models |-> ModelsWithSettings(snap[t], settings[t], d),
                 missing |-> MissingModels(snap[t], settings[t], d)]
    /\ status' = 200
    /\ Finish(t)
    /\ UNCHANGED <<table, calls, chain, dup, avail, cache>>
    /\ UNCHANGED orig

\* A refresh that answers 200 and keeps the cached catalog.
CacheAfterResetKept == cache

\* resetProviderRegistryCache
CacheAfterReset == NoCache

\* POST ?action=...: refresh resets the cache, anything else is a 400.  The
\* handler is one step and occupies no task; the specifications decide
\* whether it counts against MaxCalls.
Post(action) ==
    /\ IF action = "refresh"
       THEN /\ cache' = CacheAfterReset
            /\ status' = 200
       ELSE /\ cache' = cache
            /\ status' = 400
    /\ UNCHANGED <<table, pc, req, existing, existingMap, idx, cleared, cand, chain, dup, avail, out, snap, settings>>
    /\ UNCHANGED orig

\* The providers start or stop offering models.
CatalogChange(S) ==
    /\ calls < MaxCalls
    /\ calls' = calls + 1
    /\ S # avail
    /\ avail' = S
    /\ UNCHANGED <<table, pc, req, existing, existingMap, idx, cleared, cand, status, chain, dup, cache, out, snap, settings>>
    /\ UNCHANGED orig

Next ==
    \/ \E t \in Tasks, m \in ModelIds, name \in RequestNames : PatchSetDefault(t, m, name)
    \/ \E t \in Tasks : SdClearResume(t)
    \/ \E t \in Tasks : SdSelect(t)
    \/ \E t \in Tasks : SdUpsertCommit(t)
    \/ \E t \in Tasks, m \in ModelIds, en \in BOOLEAN, name \in RequestNames : PatchEnabled(t, m, en, name)
    \/ \E t \in Tasks : PeSelect(t)
    \/ \E t \in Tasks : PeWrite(t)
    \/ \E t \in Tasks, m \in ModelIds : Delete(t, m)
    \/ \E t \in Tasks : DeleteWrite(t)
    \/ \E t \in Tasks, S \in SUBSET ModelIds : SyncStart(t, S)
    \/ \E t \in Tasks : SyncStep(t)
    \/ \E t \in Tasks : Fail(t)

Spec == Init /\ [][Next]_vars

\* Every operation; reconciliation is started by the resolver's fallback.
NextAll ==
    \/ \E t \in Tasks, m \in ModelIds, name \in RequestNames : PatchSetDefault(t, m, name)
    \/ \E t \in Tasks : SdClearResume(t)
    \/ \E t \in Tasks : SdSelect(t)
    \/ \E t \in Tasks : SdUpsertCommit(t)
    \/ \E t \in Tasks, m \in ModelIds, en \in BOOLEAN, name \in RequestNames : PatchEnabled(t, m, en, name)
    \/ \E t \in Tasks : PeSelect(t)
    \/ \E t \in Tasks : PeWrite(t)
    \/ \E t \in Tasks, m \in ModelIds : Delete(t, m)
    \/ \E t \in Tasks : DeleteWrite(t)
    \/ \E t \in Tasks : Resolve(t)
    \/ \E t \in Tasks : RsCatalog(t)
    \/ \E t \in Tasks : RsDefault(t)
    \/ \E t \in Tasks : SyncRead(t)
    \/ \E t \in Tasks : SyncStep(t)
    \/ \E t \in Tasks : GetStart(t)
    \/ \E t \in Tasks : GetFinish(t)
    \/ \E action \in {"refresh", "other"} :
          calls < MaxCalls /\ calls' = calls + 1 /\ Post(action)
    \/ \E S \in SUBSET ModelIds : CatalogChange(S)
    \/ \E t \in Tasks : Fail(t)

SpecAll == Init /\ [][NextAll]_vars

\* The read side alone: resolve with its reconciliation, the list view,
\* refreshes and catalog changes.  Rows come from reconciliation only, and
\* POST is not counted.
NextRefresh ==
    \/ \E t \in Tasks : Resolve(t)
    \/ \E t \in Tasks : RsCatalog(t)
    \/ \E t \in Tasks : RsDefault(t)
    \/ \E t \in Tasks : SyncRead(t)
    \/ \E t \in Tasks : SyncStep(t)
    \/ \E t \in Tasks : GetStart(t)
    \/ \E t \in Tasks : GetFinish(t)
    \/ \E action \in {"refresh", "other"} : calls' = calls /\ Post(action)
    \/ \E S \in SUBSET ModelIds : CatalogChange(S)
    \/ \E t \in Tasks : Fail(t)

SpecRefresh == Init /\ [][NextRefresh]_vars

\* Reconciliation alone, on a project that already has rows: runs over any
\* snapshots start, interleave, fail and complete; nothing else writes.
OrigRows(k) ==
    {NoRow, NewRow("", TRUE, FALSE), NewRow("X", FALSE, FALSE), NewRow(CatalogName(k), TRUE, FALSE)}

InitConverge ==
    /\ table \in [ModelIds -> UNION {OrigRows(k) : k \in ModelIds}]
    /\ \A k \in ModelIds : table[k] \in OrigRows(k)
    /\ orig = table
    /\ pc = [t \in Tasks |-> "idle"]
    /\ req = [t \in Tasks |-> NoReq]
    /\ existing = [t \in Tasks |-> NoRow]
    /\ existingMap = [t \in Tasks |-> NoMap]
    /\ idx = [t \in Tasks |-> 0]
    /\ cleared = [t \in Tasks |-> {}]
    /\ cand = [t \in Tasks |-> {}]
    /\ status = 0
    /\ calls = 0
    /\ chain = NoChain
    /\ dup = {}
    /\ avail = ModelIds
    /\ cache = NoCache
    /\ out = NoOut
    /\ snap = [t \in Tasks |-> {}]
    /\ settings = [t \in Tasks |-> NoSettings]

NextConverge ==
    \/ \E t \in Tasks, S \in SUBSET ModelIds : SyncStart(t, S)
    \/ \E t \in Tasks : SyncStep(t)
    \/ \E t \in Tasks : Fail(t)

SpecConverge == InitConverge /\ [][NextConverge]_vars

\* Only setDefault requests (PATCH isDefault=true) are served.
NextSetDefault ==
    \/ \E t \in Tasks, m \in ModelIds, name \in RequestNames : PatchSetDefault(t, m, name)
    \/ \E t \in Tasks : SdClearResume(t)
    \/ \E t \in Tasks : SdSelect(t)
    \/ \E t \in Tasks : SdUpsertCommit(t)
    \/ \E t \in Tasks : Fail(t)

SpecSetDefault == Init /\ [][NextSetDefault]_vars

TypeOK ==
    /\ \A k \in ModelIds : table[k] = NoRow \/ table[k].modelName \in {"", "X", CatalogName(k)}
    /\ calls \in 0..MaxCalls
    /\ status \in {0, 200, 400, 500}
    /\ avail \subseteq ModelIds
    /\ cache.filled \in BOOLEAN /\ cache.models \subseteq ModelIds
    /\ out.kind \in {"none", "store", "catalog", "list"}
    /\ dup \subseteq ModelIds

----------------------------------------------------------------------------
\* Properties

\* C1: at most one settings row of the project has isDefault = true, also
\* when setDefault calls run concurrently as separate transactions.
C1_AtMostOneDefault == Cardinality(DefaultRows(table)) <= 1

\* C2: every row with isDefault = true has enabled = true, under any
\* interleaving of the Settings API operations and reconciliation.
C2_DefaultIsEnabled ==
    \A k \in ModelIds : HasRow(table, k) /\ table[k].isDefault => table[k].enabled

\* C3: once the project has a default row, no step of any number of
\* concurrent setDefault calls leads to a committed table in which
\* getDefault finds no row (the clear is never visible without the set).
C3_NoZeroDefaultObserved ==
    [][DefaultRows(table) # {} => getDefaultModel(table') # {NoModel}]_vars

C3_Witness ==
    \E t \in Tasks :
        /\ pc[t] = "sd_upsert"
        /\ cleared[t] # {}
        /\ req[t].modelId \notin cleared[t]
        /\ DefaultRows(table) = cleared[t]

\* C4: a PATCH with enabled = false for a model whose row is the default
\* is answered 400 at its check and changes no row.
C4_DisableDefaultRejected ==
    [][\A t \in Tasks, m \in ModelIds, name \in RequestNames :
          PatchEnabled(t, m, FALSE, name) /\ m \in DefaultRows(table)
            => status' = 400 /\ pc'[t] = "idle" /\ table' = table]_vars

\* C5: a DELETE for a model whose row has isDefault = true is answered 400
\* at its check and the row stays in the table.
C5_DeleteDefaultRejected ==
    [][\A t \in Tasks, m \in ModelIds :
          Delete(t, m) /\ m \in DefaultRows(table)
            => status' = 400 /\ pc'[t] = "idle" /\ HasRow(table', m)]_vars

\* C6: no step removes a row that has isDefault = true.
C6_DefaultRowNeverRemoved ==
    [][\A k \in ModelIds : k \in DefaultRows(table) => HasRow(table', k)]_vars

\* C7: a PATCH enabled = false that passed the default check and answers
\* 200 leaves the model's row in the table with enabled = false; a DELETE
\* that passed the check leaves no row for the model.
C7_NonDefaultDisableDeleteSucceeds ==
    [][\A t \in Tasks :
          /\ (PeWrite(t) /\ ~req[t].enabled /\ status' = 200
                => HasRow(table', req[t].modelId) /\ ~table'[req[t].modelId].enabled)
          /\ (DeleteWrite(t) => ~HasRow(table', req[t].modelId))]_vars

\* C8: when setDefault completes (commits), the target row exists with
\* isDefault = true and enabled = true.
C8_SetDefaultLeavesTargetDefaultEnabled ==
    [][\A t \in Tasks :
          SdUpsertCommit(t) /\ status' = 200
            => /\ HasRow(table', req[t].modelId)
               /\ table'[req[t].modelId].isDefault
               /\ table'[req[t].modelId].enabled]_vars

\* C9: a reconciliation run that follows a completed run over the same
\* snapshot, with no other write since that first run started, issues no
\* insert and no update and leaves the table as it is.
C9_SecondRunWritesNothing ==
    [][\A t \in Tasks :
          SyncStep(t) /\ chain.ok /\ chain.done = 1
            => ~SyncIssuesWrite(t) /\ table' = table]_vars

C9_Witness ==
    \E t \in Tasks :
        /\ SyncRunning(t)
        /\ chain.ok /\ chain.done = 1
        /\ idx[t] = 2
        /\ \E k \in ModelIds : HasRow(table, k) /\ table[k] = SyncInsertRow(CatalogName(k))

\* C10: a step of a reconciliation run removes no row and changes neither
\* enabled nor isDefault of a row that exists when the step writes.
C10_SyncKeepsFlags ==
    [][\A t \in Tasks :
          SyncStep(t) =>
            \A k \in ModelIds :
                HasRow(table, k) =>
                    /\ HasRow(table', k)
                    /\ table'[k].enabled = table[k].enabled
                    /\ table'[k].isDefault = table[k].isDefault]_vars

C10_Witness ==
    \E t \in Tasks, k \in ModelIds :
        /\ SyncRunning(t)
        /\ idx[t] > 1
        /\ existingMap[t][k] = ""
        /\ \E i \in 1..(idx[t] - 1) : req[t].models[i].id = k
        /\ HasRow(table, k)
        /\ table[k] = NewRow(CatalogName(k), TRUE, TRUE)

\* C11: a row's modelName, once non-empty, is not changed by any step.
C11_NameNeverChanges ==
    [][\A k \in ModelIds :
          HasRow(table, k) /\ table[k].modelName # "" /\ HasRow(table', k)
            => table'[k].modelName = table[k].modelName]_vars

\* C14: when a reconciliation run over snapshot S completes with no
\* concurrent write, every id of S has a row; the rows the run created are
\* disabled, non-default and carry the catalog name; the rows it found with
\* an empty name carry the catalog name.
C14_CompletedRunCoversSnapshot ==
    [][\A t \in Tasks :
          SyncStep(t) /\ idx[t] = Len(req[t].models) /\ chain.ok /\ chain'.ok
            => \A i \in 1..Len(req[t].models) :
                 LET e == req[t].models[i] IN
                 /\ HasRow(table', e.id)
                 /\ existingMap[t][e.id] = Missing => table'[e.id] = NewRow(e.name, FALSE, FALSE)
                 /\ existingMap[t][e.id] = "" => table'[e.id].modelName = e.name]_vars

C14_Witness ==
    /\ \A t \in Tasks : pc[t] = "idle"
    /\ chain.ok /\ chain.done = 1 /\ Len(chain.cat) >= 2
    /\ \E i, j \in 1..Len(chain.cat) :
         /\ table[chain.cat[i].id] = NewRow(chain.cat[i].name, FALSE, FALSE)
         /\ table[chain.cat[j].id] = NewRow(chain.cat[j].name, TRUE, FALSE)

\* C20: a setDefault that fails after its clear (a failing statement, or an
\* insert that violates the unique key) leaves the committed table as it
\* was, the rows it had cleared still with isDefault = true.
C20_FailedSetDefaultRollsBack ==
    [][\A t \in Tasks :
          req[t].op = "setDefault" /\ pc[t] # "idle" /\ pc'[t] = "idle" /\ status' = 500
            => /\ table' = table
               /\ \A k \in cleared[t] : HasRow(table', k) /\ table'[k].isDefault]_vars

C20_Witness ==
    \E t \in Tasks :
        /\ pc[t] = "sd_upsert"
        /\ cleared[t] # {}
        /\ existing[t] = NoRow
        /\ UniqueViolation(table, req[t].modelId)

----------------------------------------------------------------------------
\* C13: a settings row disappears only in the delete statement of an
\* explicit DELETE; setEnabled, setDefault, reconciliation, resolve, the
\* list view, a cache refresh and a change of the catalog remove none.
C13_RowsShrinkOnlyByDelete ==
    [][(\E k \in ModelIds : HasRow(table, k) /\ ~HasRow(table', k))
          => \E t \in Tasks : DeleteWrite(t)]_vars

\* The list view has reported a row whose model the providers no longer
\* offer, and the row is still stored.
C13_Witness ==
    /\ out.kind = "list"
    /\ \E i \in 1..Len(out.missing) :
         /\ out.missing[i].id \notin avail
         /\ HasRow(table, out.missing[i].id)

----------------------------------------------------------------------------
----------------------------------------------------------------------------
\* C16: a resolve call that falls back to the catalog returns its list
\* before the reconciliation it started has read or written anything, and
\* no step of that reconciliation, a failing one included, changes the
\* returned list or turns the answer into an error.
C16_SyncFailureNotSurfaced ==
    [][\A t \in Tasks :
          /\ RsDefault(t) =>
               /\ out'.kind = "catalog"
               /\ status' = 200
               /\ table' = table
               /\ pc'[t] = "sy_read"
          /\ req[t].op = "sync" /\ (pc'[t] # pc[t] \/ idx'[t] # idx[t]) =>
               /\ out' = out
               /\ status' = status]_vars

\* The list has been returned, and the reconciliation behind it is about
\* to insert a row that a concurrent request has created meanwhile.
C16_Witness ==
    \E t \in Tasks :
        /\ pc[t] = "sy_loop"
        /\ out.kind = "catalog"
        /\ status = 200
        /\ LET e == req[t].models[idx[t]] IN
             existingMap[t][e.id] = Missing /\ UniqueViolation(table, e.id)

----------------------------------------------------------------------------
\* C17: every list handed out by resolve and both lists of the list view
\* are sorted: default entries first, then (list view only) enabled before
\* disabled, then by name ascending.
C17_ListsSorted ==
    LET key(e) == (IF e.isDefault THEN 0 ELSE 100)
                  + (IF out.kind = "list" /\ ~e.enabled THEN 10 ELSE 0)
                  + NameRank(e.name)
        sorted(s) == \A i, j \in 1..Len(s) : i < j => key(s[i]) <= key(s[j])
    IN sorted(out.models) /\ sorted(out.missing)

\* The list view has put the default model first although its name sorts
\* after the next entry's, and a disabled model last.
C17_Witness ==
    /\ out.kind = "list"
    /\ Len(out.models) = 3
    /\ out.models[1].isDefault
    /\ NameRank(out.models[1].name) > NameRank(out.models[2].name)
    /\ ~out.models[3].enabled
    /\ NameRank(out.models[3].name) < NameRank(out.models[2].name)

----------------------------------------------------------------------------
\* C18: in the list view every catalog model appears exactly once in
\* models, enabled as its settings row says or true without a row; every
\* settings row of a model outside the catalog appears exactly once in
\* missingModels named by its id; no id is in both lists and no row is in
\* neither.
C18_ListViewPartition ==
    [][\A t \in Tasks : GetFinish(t) =>
          LET ms == out'.models
              mi == out'.missing
              rows == {k \in ModelIds : HasRow(settings[t], k)}
              at(s, k) == {i \in 1..Len(s) : s[i].id = k}
          IN /\ \A k \in snap[t] :
                  /\ Cardinality(at(ms, k)) = 1
                  /\ \A i \in at(ms, k) :
                       ms[i].enabled = (IF k \in rows THEN settings[t][k].enabled ELSE TRUE)
             /\ \A k \in rows \ snap[t] :
                  /\ Cardinality(at(mi, k)) = 1
                  /\ \A i \in at(mi, k) : mi[i].name = k /\ mi[i].enabled = settings[t][k].enabled
             /\ \A k \in ModelIds : at(ms, k) = {} \/ at(mi, k) = {}
             /\ \A k \in rows : at(ms, k) # {} \/ at(mi, k) # {}
             /\ \A k \in ModelIds \ snap[t] : at(ms, k) = {}
             /\ \A k \in ModelIds \ (rows \ snap[t]) : at(mi, k) = {}]_vars

\* A list view with a model that has no row (shown enabled) and a row
\* whose model has left the catalog.
C18_Witness ==
    /\ out.kind = "list"
    /\ \E i \in 1..Len(out.models) : ~HasRow(table, out.models[i].id) /\ out.models[i].enabled
    /\ \E i \in 1..Len(out.missing) : HasRow(table, out.missing[i].id)

----------------------------------------------------------------------------
\* C19: POST action=refresh empties the provider registry cache and leaves
\* the settings rows alone, and the cache is filled again only by a
\* catalog read, which then serves what the providers offer now; POST with
\* another action answers 400 and changes neither cache nor store.
C19_RefreshInvalidatesCache ==
    [][/\ Post("refresh") => ~cache'.filled /\ table' = table /\ status' = 200
       /\ Post("other") => status' = 400 /\ cache' = cache /\ table' = table
       /\ \A t \in Tasks :
            (RsCatalog(t) \/ GetStart(t)) /\ ~cache.filled
              => snap'[t] = avail /\ cache' = [filled |-> TRUE, models |-> avail]
       /\ ~cache.filled /\ cache'.filled
              => \E t \in Tasks : RsCatalog(t) \/ GetStart(t)]_vars

\* A list view has read the current catalog although an earlier answer was
\* built from a different, cached one: a refresh lies in between.
C19_Witness ==
    \E t \in Tasks :
        /\ pc[t] = "get_default"
        /\ snap[t] = avail
        /\ cache = [filled |-> TRUE, models |-> avail]
        /\ out.kind \in {"list", "catalog"}
        /\ {out.models[i].id : i \in 1..Len(out.models)} # avail

----------------------------------------------------------------------------
\* C21: getDefault returns a row exactly when the project has a row with
\* isDefault = true, and then it returns such a row.
C21_GetDefaultFindsDefault ==
    /\ DefaultRows(table) = {} <=> getDefaultModel(table) = {NoModel}
    /\ DefaultRows(table) # {} => getDefaultModel(table) \subseteq DefaultRows(table)

----------------------------------------------------------------------------
\* C22: the write of setEnabled leaves every other row unchanged; on the
\* target row it keeps isDefault and changes modelName only when the
\* stored name is empty and a name is supplied; a row it inserts has
\* isDefault = false.
C22_SetEnabledFrame ==
    [][\A t \in Tasks : PeWrite(t) =>
          LET m == req[t].modelId IN
          /\ \A k \in ModelIds \ {m} : table'[k] = table[k]
          /\ HasRow(table, m) =>
               /\ HasRow(table', m)
               /\ table'[m].isDefault = table[m].isDefault
               /\ table'[m].modelName # table[m].modelName =>
                    /\ table[m].modelName = ""
                    /\ req[t].modelName # ""
                    /\ table'[m].modelName = req[t].modelName
          /\ ~HasRow(table, m) /\ HasRow(table', m) => ~table'[m].isDefault]_vars

\* The part of C22 that does not depend on the name: setEnabled never
\* changes isDefault of any row and touches no row but its target.
C22_SetEnabledKeepsIsDefault ==
    [][\A t \in Tasks : PeWrite(t) =>
          LET m == req[t].modelId IN
          /\ \A k \in ModelIds \ {m} : table'[k] = table[k]
          /\ HasRow(table, m) => HasRow(table', m) /\ table'[m].isDefault = table[m].isDefault
          /\ ~HasRow(table, m) /\ HasRow(table', m) => ~table'[m].isDefault]_vars

----------------------------------------------------------------------------
\* C23: setDefault(m) changes only the target row m and the isDefault flag
\* of rows that were default: a previous default keeps enabled and
\* modelName, every other row is unchanged, and nothing is visible before
\* the commit.
C23_SetDefaultFrame ==
    [][\A t \in Tasks :
          /\ req'[t].op = "setDefault" /\ pc'[t] # pc[t] /\ pc'[t] # "idle" => table' = table
          /\ SdUpsertCommit(t) =>
               \A k \in ModelIds \ {req[t].modelId} :
                  \/ table'[k] = table[k]
                  \/ /\ HasRow(table, k)
                     /\ table[k].isDefault
                     /\ table'[k] = [table[k] EXCEPT !.isDefault = FALSE]]_vars

\* A setDefault transaction is about to commit: it has cleared a previous
\* default other than its target, and a third row exists.
C23_Witness ==
    \E t \in Tasks :
        /\ pc[t] = "sd_upsert"
        /\ cleared[t] # {}
        /\ req[t].modelId \notin cleared[t]
        /\ existing[t] # NoRow \/ ~UniqueViolation(table, req[t].modelId)
        /\ \E k \in ModelIds \ (cleared[t] \cup {req[t].modelId}) : HasRow(table, k)

----------------------------------------------------------------------------
\* C24: when a reconciliation run completes without failure and no other
\* write has happened since it read the rows, a project with an enabled
\* row can be answered from the store: the next resolve call does not fall
\* back to the catalog again.
C24_StoreAnswersAfterSync ==
    [][\A t \in Tasks :
          (/\ SyncStep(t)
           /\ pc'[t] = "idle"
           /\ chain'.ok /\ chain'.done = 1
           /\ EnabledIds(table') # {})
            => ~getEnabledModelsFromDB(table').isNull]_vars

\* C24 restricted to runs whose snapshot lists every enabled row's model.
C24_StoreAnswersWhenSnapshotCoversRows ==
    [][\A t \in Tasks :
          (/\ SyncStep(t)
           /\ pc'[t] = "idle"
           /\ chain'.ok /\ chain'.done = 1
           /\ EnabledIds(table') # {}
           /\ \A k \in EnabledIds(table') :
                 \E i \in 1..Len(chain'.cat) : chain'.cat[i].id = k)
            => ~getEnabledModelsFromDB(table').isNull]_vars

----------------------------------------------------------------------------
\* C25: a step of a reconciliation run does not change the enabled value
\* the list view reports for any model of the run's catalog snapshot.
C25_SyncKeepsReportedEnabled ==
    [][\A t \in Tasks : SyncStep(t) =>
          LET cat == {req[t].models[i].id : i \in 1..Len(req[t].models)}
              before == ModelsWithSettings(cat, table, NoModel)
              after == ModelsWithSettings(cat, table', NoModel)
          IN \A i, j \in 1..Cardinality(cat) :
                before[i].id = after[j].id => before[i].enabled = after[j].enabled]_vars

----------------------------------------------------------------------------
\* C26: reconciliation converges.  Whatever runs came before (stopped
\* part-way by a failing write, or interleaved), a run over snapshot S that
\* completes with no concurrent write leaves every row of S as a single
\* uninterrupted run over S from the original table would have; and a step
\* of a run writes no row but its entry's, so rows outside the snapshots
\* stay as they were.
C26_SyncConverges ==
    [][\A t \in Tasks : SyncStep(t) =>
          LET S == req[t].models
              e == S[idx[t]]
          IN /\ \A k \in ModelIds \ {e.id} : table'[k] = table[k]
             /\ (pc'[t] = "idle" /\ chain'.ok /\ chain'.done = 1) =>
                  \A i \in 1..Len(S) : table'[S[i].id] = SingleRun(orig, S)[S[i].id]]_vars

\* The last step of an undisturbed run that completes the work of an
\* earlier run which stopped part-way: a row of the snapshot was written
\* before this run read the table, and another one is still to be written.
C26_Witness ==
    \E t \in Tasks :
        /\ pc[t] = "sy_loop"
        /\ chain.ok
        /\ idx[t] = Len(req[t].models)
        /\ \A u \in Tasks \ {t} : pc[u] = "idle"
        /\ SyncIssuesWrite(t)
        /\ \E i \in 1..Len(req[t].models) :
             LET k == req[t].models[i].id IN
             /\ orig[k] # table[k]
             /\ existingMap[t][k] = CatalogName(k)

====
